---- MODULE Spec2Model ----
(***************************************************************************)
(* The Dashboard component of frontend/src/routes/_layout/index.tsx: the   *)
(* upload pipeline handleFileUpload with its three nested setInterval      *)
(* polls, handleDownload and resetUpload, as a state machine.  Every await *)
(* is a request in flight that the environment answers (resolve or reject) *)
(* at any later time; every armed interval timer may tick at any time, so  *)
(* a tick may fire while the request of an earlier tick is unanswered.     *)
(***************************************************************************)
EXTENDS Integers, Sequences, FiniteSets, Bags, TLC

\* Bounds of the exploration.
MaxSessions == 2     \* invocations of handleFileUpload
MaxTicks == 4        \* interval callbacks fired in total
MaxTimers == 4       \* setInterval calls in total
MaxInflight == 2     \* requests awaiting their response at one time

VARIABLES
  version,                 \* which of the two Dashboard layouts is mounted (0: none)
  uploadStatus,            \* useState<UploadStatus>
  downloadUrl,             \* useState<string>
  showDownload,            \* useState(false)
  statusCheckInterval,     \* useRef: a timer id, or Null
  operationCheckInterval,  \* useRef: a timer id, or Null
  convertCheckInterval,    \* useRef: a timer id, or Null
  timers,                  \* every interval created so far, by id
  calls,                   \* bag of the requests in flight (the pending awaits)
  sess,                    \* one record per handleFileUpload invocation
  ticks                    \* interval callbacks fired so far

vars == <<version, uploadStatus, downloadUrl, showDownload, statusCheckInterval,
          operationCheckInterval, convertCheckInterval, timers, calls, sess, ticks>>

refs == <<statusCheckInterval, operationCheckInterval, convertCheckInterval>>

Null == 0
NoError == "undefined"
Files == {"none", "pdf", "txt"}
RejectMsg == "request rejected"

\* updateStatus as it would be if it dropped its error argument.
updateStatusDropsError(stage, message, progress, error) ==
  [stage |-> stage, message |-> message, progress |-> progress, error |-> NoError]

\* updateStatus as it would be if it kept the progress already shown.
updateStatusKeepsProgress(stage, message, progress, error) ==
  [stage |-> stage, message |-> message, progress |-> uploadStatus.progress,
   error |-> error]

\* updateStatus: replaces the whole status object, error included.
updateStatus(stage, message, progress, error) ==
  [stage |-> stage, message |-> message, progress |-> progress, error |-> error]

IdleStatus == [stage |-> "idle", message |-> "", progress |-> 0, error |-> NoError]

\* clearInterval(id): disarms that timer; clearInterval(null) does nothing.
clearInterval(ts, id) ==
  IF id = Null THEN ts ELSE [ts EXCEPT ![id].armed = FALSE]

\* The timers after clearIntervals(): the timer held by each ref is disarmed.
clearIntervals ==
  clearInterval(clearInterval(clearInterval(timers, statusCheckInterval),
                              operationCheckInterval), convertCheckInterval)

\* setInterval: a new armed timer; its id is the next index.
setInterval(kind, s) ==
  Append(timers, [kind |-> kind, sess |-> s, armed |-> TRUE, seen |-> "none"])

\* A request in flight: k the remote call, s the session whose closure issued
\* it, c the convert timer whose task it asks about (convertTaskId), early
\* whether it was issued before a terminal answer for its target was seen,
\* stale whether resetUpload ran while it was in flight.
Call(k, s, c, early) ==
  [k |-> k, s |-> s, c |-> c, early |-> early, stale |-> FALSE]

Issue(B, call) == B (+) SetToBag({call})
Settle(B, call) == B (-) SetToBag({call})
InFlight == BagCardinality(calls)
Awaiting(k) == {c \in BagToSet(calls) : c.k = k}

\* The file input is rendered always (first layout) or only when idle.
InputRendered == version = 1 \/ (version = 2 /\ uploadStatus.stage = "idle")

\* The reset button is rendered in stage error or beside the download button.
ResetRendered == version # 0 /\ (uploadStatus.stage = "error" \/ showDownload)

\* The catch block of handleFileUpload: error status, then clearIntervals().
CatchUpload(msg) ==
  /\ uploadStatus' = updateStatus("error", "error occurred", 0, msg)
  /\ timers' = clearIntervals
  /\ statusCheckInterval' = Null
  /\ operationCheckInterval' = Null
  /\ convertCheckInterval' = Null

\* handleFileSelect as it would be without the test of the file's type: any
\* selected file is uploaded.
HandleFileSelectNoTypeCheck(file) ==
  /\ InputRendered
  /\ IF file # "none"
     THEN /\ Len(sess) < MaxSessions
          /\ InFlight < MaxInflight
          /\ uploadStatus' = updateStatus("uploading", "preparing upload", 10, NoError)
          /\ calls' = Issue(calls, Call("signedUrl", Len(sess) + 1, Null, TRUE))
          /\ sess' = Append(sess, [from |-> uploadStatus.stage,
                                   taskSeen |-> "none", opName |-> "none",
                                   opSeen |-> FALSE])
     ELSE /\ uploadStatus' = updateStatus("error", "select a valid PDF", 0,
                                          "bad file format")
          /\ UNCHANGED <<calls, sess>>
  /\ UNCHANGED <<version, downloadUrl, showDownload, refs, timers, ticks>>

\* handleFileSelect, and the synchronous head of handleFileUpload up to its
\* first await.
HandleFileSelect(file) ==
  /\ InputRendered
  /\ IF file = "pdf"
     THEN /\ Len(sess) < MaxSessions
          /\ InFlight < MaxInflight
          /\ uploadStatus' = updateStatus("uploading", "preparing upload", 10, NoError)
          /\ calls' = Issue(calls, Call("signedUrl", Len(sess) + 1, Null, TRUE))
          /\ sess' = Append(sess, [from |-> uploadStatus.stage,
                                   taskSeen |-> "none", opName |-> "none",
                                   opSeen |-> FALSE])
     ELSE /\ uploadStatus' = updateStatus("error", "select a valid PDF", 0,
                                          "bad file format")
          /\ UNCHANGED <<calls, sess>>
  /\ UNCHANGED <<version, downloadUrl, showDownload, refs, timers, ticks>>

\* Step 1 answered: generateSignedUrlEndpoint.
SignedUrlResponds(c, r) ==
  /\ c \in Awaiting("signedUrl")
  /\ r \in {"ok", "reject"}
  /\ IF r = "ok"
     THEN /\ uploadStatus' = updateStatus("uploading", "uploading file", 30, NoError)
          /\ calls' = Issue(Settle(calls, c), Call("put", c.s, Null, TRUE))
          /\ UNCHANGED <<refs, timers>>
     ELSE /\ CatchUpload(RejectMsg)
          /\ calls' = Settle(calls, c)
  /\ UNCHANGED <<version, downloadUrl, showDownload, sess, ticks>>

\* Step 2 answered: the PUT to the signed URL.
PutResponds(c, r) ==
  /\ c \in Awaiting("put")
  /\ r \in {"ok", "notok", "reject"}
  /\ IF r = "ok"
     THEN /\ uploadStatus' = updateStatus("processing", "upload done, queueing", 50, NoError)
          /\ calls' = Issue(Settle(calls, c), Call("process", c.s, Null, TRUE))
          /\ UNCHANGED <<refs, timers>>
     ELSE /\ CatchUpload(IF r = "notok" THEN "upload failed" ELSE RejectMsg)
          /\ calls' = Settle(calls, c)
  /\ UNCHANGED <<version, downloadUrl, showDownload, sess, ticks>>

\* Step 3 answered: processUploadedFile; on success the status poll is armed.
ProcessResponds(c, r) ==
  /\ c \in Awaiting("process")
  /\ r \in {"ok", "reject"}
  /\ calls' = Settle(calls, c)
  /\ IF r = "ok"
     THEN /\ Len(timers) < MaxTimers
          /\ uploadStatus' = updateStatus("processing", "task started", 60, NoError)
          /\ timers' = setInterval("status", c.s)
          /\ statusCheckInterval' = Len(timers) + 1
          /\ UNCHANGED <<operationCheckInterval, convertCheckInterval>>
     ELSE CatchUpload(RejectMsg)
  /\ UNCHANGED <<version, downloadUrl, showDownload, sess, ticks>>

\* The request a continuation issues after the answer to c: same closure.
Then(c, k, cid) ==
  [k |-> k, s |-> c.s, c |-> cid, early |-> TRUE, stale |-> c.stale]

\* What the backend may answer to a status request of one task: a task's status
\* is PENDING until it turns SUCCESS or FAILURE for good, so the two terminal
\* answers exclude each other and PENDING is only the answer to a request issued
\* before a terminal answer arrived.  A request may always be rejected.
Consistent(seen, early, r) ==
  \/ r = "reject"
  \/ r = "PENDING" /\ early
  \/ r \in {"SUCCESS", "FAILURE"} /\ seen \in {"none", r}

\* The request an interval callback issues first, by the kind of its timer.
FirstCall(i) ==
  LET t == timers[i] IN
  CASE t.kind = "status" ->
         Call("status", t.sess, Null, sess[t.sess].taskSeen = "none")
    [] t.kind = "operation" ->
         Call("operation", t.sess, Null, ~sess[t.sess].opSeen)
    [] t.kind = "convert" ->
         Call("cstatus", t.sess, i, t.seen = "none")

\* An armed interval fires: its async callback runs up to its first await.
Tick(i) ==
  /\ timers[i].armed
  /\ ticks < MaxTicks
  /\ InFlight < MaxInflight
  /\ ticks' = ticks + 1
  /\ calls' = Issue(calls, FirstCall(i))
  /\ UNCHANGED <<version, uploadStatus, downloadUrl, showDownload, refs, timers, sess>>

\* Step 4 answered: getTaskStatus of the recognition task.
StatusResponds(c, r) ==
  /\ c \in Awaiting("status")
  /\ Consistent(sess[c.s].taskSeen, c.early, r)
  /\ CASE r = "SUCCESS" ->
            /\ timers' = clearInterval(timers, statusCheckInterval)
            /\ uploadStatus' = updateStatus("processing", "recognised, querying operation", 70, NoError)
            /\ calls' = Issue(Settle(calls, c), Then(c, "result", Null))
            /\ sess' = [sess EXCEPT ![c.s].taskSeen = r]
       [] r = "FAILURE" ->
            /\ timers' = clearInterval(timers, statusCheckInterval)
            /\ uploadStatus' = updateStatus("error", "processing failed", 0, "task failed")
            /\ calls' = Settle(calls, c)
            /\ sess' = [sess EXCEPT ![c.s].taskSeen = r]
       [] r = "PENDING" ->
            /\ uploadStatus' = updateStatus("processing", "processing (status)", 65, NoError)
            /\ calls' = Settle(calls, c)
            /\ UNCHANGED <<timers, sess>>
       [] r = "reject" ->
            /\ timers' = clearInterval(timers, statusCheckInterval)
            /\ uploadStatus' = updateStatus("error", "task status check failed", 0, RejectMsg)
            /\ calls' = Settle(calls, c)
            /\ UNCHANGED sess
  /\ UNCHANGED <<version, downloadUrl, showDownload, refs, ticks>>

\* Step 5 as it would be without the check of operation_name: the operation
\* poll is armed whatever the result holds.
ResultRespondsNoNameCheck(c, r) ==
  /\ c \in Awaiting("result")
  /\ r \in {"present", "absent", "reject"}
  /\ r = "reject" \/ sess[c.s].opName \in {"none", r}
  /\ calls' = Settle(calls, c)
  /\ IF r # "reject"
     THEN /\ Len(timers) < MaxTimers
          /\ timers' = setInterval("operation", c.s)
          /\ operationCheckInterval' = Len(timers) + 1
          /\ sess' = [sess EXCEPT ![c.s].opName = r]
          /\ UNCHANGED uploadStatus
     ELSE /\ timers' = clearInterval(timers, statusCheckInterval)
          /\ uploadStatus' = updateStatus("error", "task status check failed", 0, RejectMsg)
          /\ UNCHANGED <<sess, operationCheckInterval>>
  /\ UNCHANGED <<version, downloadUrl, showDownload, statusCheckInterval,
                 convertCheckInterval, ticks>>

\* Step 5 answered: getTaskResult of the recognition task; with an
\* operation_name the operation poll is armed, else the callback's catch runs.
ResultResponds(c, r) ==
  /\ c \in Awaiting("result")
  /\ r \in {"present", "absent", "reject"}
  /\ r = "reject" \/ sess[c.s].opName \in {"none", r}
  /\ calls' = Settle(calls, c)
  /\ IF r = "present"
     THEN /\ Len(timers) < MaxTimers
          /\ timers' = setInterval("operation", c.s)
          /\ operationCheckInterval' = Len(timers) + 1
          /\ sess' = [sess EXCEPT ![c.s].opName = r]
          /\ UNCHANGED uploadStatus
     ELSE /\ timers' = clearInterval(timers, statusCheckInterval)
          /\ uploadStatus' = updateStatus("error", "task status check failed", 0,
                                IF r = "absent" THEN "no operation_name" ELSE RejectMsg)
          /\ sess' = IF r = "absent" THEN [sess EXCEPT ![c.s].opName = r] ELSE sess
          /\ UNCHANGED operationCheckInterval
  /\ UNCHANGED <<version, downloadUrl, showDownload, statusCheckInterval,
                 convertCheckInterval, ticks>>

\* The operation poll as it would be without the test of done: every answer
\* is taken as the end of the operation.
OperationRespondsIgnoresDone(c, r) ==
  /\ c \in Awaiting("operation")
  /\ r \in {"done", "running", "reject"}
  /\ r = "running" => c.early
  /\ IF r # "reject"
     THEN /\ timers' = clearInterval(timers, operationCheckInterval)
          /\ uploadStatus' = updateStatus("converting", "operation done", 80, NoError)
          /\ calls' = Issue(Settle(calls, c), Then(c, "convert", Null))
          /\ sess' = [sess EXCEPT ![c.s].opSeen = @ \/ r = "done"]
     ELSE /\ timers' = clearInterval(timers, operationCheckInterval)
          /\ uploadStatus' = updateStatus("error", "operation check failed", 0, RejectMsg)
          /\ calls' = Settle(calls, c)
          /\ UNCHANGED sess
  /\ UNCHANGED <<version, downloadUrl, showDownload, refs, ticks>>

\* The operation poll answered: getOperation.
OperationResponds(c, r) ==
  /\ c \in Awaiting("operation")
  /\ r \in {"done", "running", "reject"}
  /\ r = "running" => c.early
  /\ CASE r = "done" ->
            /\ timers' = clearInterval(timers, operationCheckInterval)
            /\ uploadStatus' = updateStatus("converting", "operation done", 80, NoError)
            /\ calls' = Issue(Settle(calls, c), Then(c, "convert", Null))
            /\ sess' = [sess EXCEPT ![c.s].opSeen = TRUE]
       [] r = "running" ->
            /\ uploadStatus' = updateStatus("processing", "operation running", 75, NoError)
            /\ calls' = Settle(calls, c)
            /\ UNCHANGED <<timers, sess>>
       [] r = "reject" ->
            /\ timers' = clearInterval(timers, operationCheckInterval)
            /\ uploadStatus' = updateStatus("error", "operation check failed", 0, RejectMsg)
            /\ calls' = Settle(calls, c)
            /\ UNCHANGED sess
  /\ UNCHANGED <<version, downloadUrl, showDownload, refs, ticks>>

\* Step 6 answered: convertProcessedFileToExcel; on success the convert poll
\* is armed, a rejection lands in the operation callback's catch.
ConvertResponds(c, r) ==
  /\ c \in Awaiting("convert")
  /\ r \in {"ok", "reject"}
  /\ calls' = Settle(calls, c)
  /\ IF r = "ok"
     THEN /\ Len(timers) < MaxTimers
          /\ uploadStatus' = updateStatus("converting", "convert task started", 85, NoError)
          /\ timers' = setInterval("convert", c.s)
          /\ convertCheckInterval' = Len(timers) + 1
     ELSE /\ timers' = clearInterval(timers, operationCheckInterval)
          /\ uploadStatus' = updateStatus("error", "operation check failed", 0, RejectMsg)
          /\ UNCHANGED convertCheckInterval
  /\ UNCHANGED <<version, downloadUrl, showDownload, statusCheckInterval,
                 operationCheckInterval, sess, ticks>>

\* The convert poll answered: getTaskStatus of the convert task.  The callback
\* has no try/catch: a rejection ends it without touching any state.
ConvertStatusResponds(c, r) ==
  /\ c \in Awaiting("cstatus")
  /\ Consistent(timers[c.c].seen, c.early, r)
  /\ CASE r = "SUCCESS" ->
            /\ timers' = clearInterval([timers EXCEPT ![c.c].seen = r], convertCheckInterval)
            /\ uploadStatus' = updateStatus("completed", "conversion complete", 100, NoError)
            /\ calls' = Issue(Settle(calls, c), Then(c, "cresult", c.c))
       [] r = "FAILURE" ->
            /\ timers' = clearInterval([timers EXCEPT ![c.c].seen = r], convertCheckInterval)
            /\ uploadStatus' = updateStatus("error", "conversion failed", 0, "error during conversion")
            /\ calls' = Settle(calls, c)
       [] r = "PENDING" ->
            /\ uploadStatus' = updateStatus("converting", "converting (status)", 90, NoError)
            /\ calls' = Settle(calls, c)
            /\ UNCHANGED timers
       [] r = "reject" ->
            /\ calls' = Settle(calls, c)
            /\ UNCHANGED <<timers, uploadStatus>>
  /\ UNCHANGED <<version, downloadUrl, showDownload, refs, sess, ticks>>

\* The same continuation as it would be without its setShowDownload(true).
ConvertResultRespondsUrlOnly(c, r) ==
  /\ c \in Awaiting("cresult")
  /\ r \in {"X", "absent", "reject"}
  /\ calls' = Settle(calls, c)
  /\ downloadUrl' = IF r = "X" THEN "X" ELSE downloadUrl
  /\ UNCHANGED <<version, uploadStatus, showDownload, refs, timers, sess, ticks>>

\* getTaskResult of the convert task answered: the download is offered only
\* when the result carries gcs_download_path.
ConvertResultResponds(c, r) ==
  /\ c \in Awaiting("cresult")
  /\ r \in {"X", "absent", "reject"}
  /\ calls' = Settle(calls, c)
  /\ downloadUrl' = IF r = "X" THEN "X" ELSE downloadUrl
  /\ showDownload' = IF r = "X" THEN TRUE ELSE showDownload
  /\ UNCHANGED <<version, uploadStatus, refs, timers, sess, ticks>>

\* handleDownload up to its await.
HandleDownload ==
  /\ version # 0
  /\ showDownload
  /\ IF downloadUrl = ""
     THEN /\ uploadStatus' = updateStatus("error", "download failed", 0, "no download URL")
          /\ UNCHANGED calls
     ELSE /\ InFlight < MaxInflight
          /\ calls' = Issue(calls, Call("download", 0, Null, TRUE))
          /\ UNCHANGED uploadStatus
  /\ UNCHANGED <<version, downloadUrl, showDownload, refs, timers, sess, ticks>>

\* downloadFromGcs answered; the fetch of the blob that follows changes no state.
DownloadResponds(c, r) ==
  /\ c \in Awaiting("download")
  /\ r \in {"ok", "invalid", "reject"}
  /\ calls' = Settle(calls, c)
  /\ uploadStatus' =
       IF r = "ok" THEN uploadStatus
       ELSE updateStatus("error", "download failed", 0,
                         IF r = "invalid" THEN "no link or file name" ELSE RejectMsg)
  /\ UNCHANGED <<version, downloadUrl, showDownload, refs, timers, sess, ticks>>

\* The requests in flight after a reset: the same requests, each marked stale.
MarkStale(B) ==
  LET T == {[c EXCEPT !.stale = TRUE] : c \in BagToSet(B)} IN
  [t \in T |-> CopiesIn(t, B) + CopiesIn([t EXCEPT !.stale = FALSE], B)]

\* resetUpload.
ResetUpload ==
  /\ ResetRendered
  /\ timers' = clearIntervals
  /\ statusCheckInterval' = Null
  /\ operationCheckInterval' = Null
  /\ convertCheckInterval' = Null
  /\ uploadStatus' = IdleStatus
  /\ showDownload' = FALSE
  /\ downloadUrl' = ""
  /\ calls' = MarkStale(calls)
  /\ UNCHANGED <<version, sess, ticks>>

\* The component is torn down (the route is left).  The component registers no
\* cleanup: its only effect fetches the operation info and returns nothing, so
\* the intervals and the pending awaits are left as they are.  Nothing is
\* rendered any more; the state variables then hold what the setters were last
\* called with.
Unmount ==
  /\ version # 0
  /\ version' = 0
  /\ UNCHANGED <<uploadStatus, downloadUrl, showDownload, refs, timers, calls,
                 sess, ticks>>

StatusAnswers == {"PENDING", "SUCCESS", "FAILURE", "reject"}

\* The state after the component is constructed, common to both layouts.
Mounted ==
  /\ uploadStatus = IdleStatus
  /\ downloadUrl = ""
  /\ showDownload = FALSE
  /\ statusCheckInterval = Null
  /\ operationCheckInterval = Null
  /\ convertCheckInterval = Null
  /\ timers = <<>>
  /\ calls = EmptyBag
  /\ sess = <<>>
  /\ ticks = 0

\* The component as the file leaves it: the file input is rendered when idle.
Init == version = 2 /\ Mounted

\* The first layout of the file: the file input is always rendered.
InitAlways == version = 1 /\ Mounted

Next ==
  \/ \E f \in Files : HandleFileSelect(f)
  \/ \E c \in BagToSet(calls), r \in {"ok", "reject"} : SignedUrlResponds(c, r)
  \/ \E c \in BagToSet(calls), r \in {"ok", "notok", "reject"} : PutResponds(c, r)
  \/ \E c \in BagToSet(calls), r \in {"ok", "reject"} : ProcessResponds(c, r)
  \/ \E i \in 1..Len(timers) : Tick(i)
  \/ \E c \in BagToSet(calls), r \in StatusAnswers : StatusResponds(c, r)
  \/ \E c \in BagToSet(calls), r \in {"present", "absent", "reject"} : ResultResponds(c, r)
  \/ \E c \in BagToSet(calls), r \in {"done", "running", "reject"} : OperationResponds(c, r)
  \/ \E c \in BagToSet(calls), r \in {"ok", "reject"} : ConvertResponds(c, r)
  \/ \E c \in BagToSet(calls), r \in StatusAnswers : ConvertStatusResponds(c, r)
  \/ \E c \in BagToSet(calls), r \in {"X", "absent", "reject"} : ConvertResultResponds(c, r)
  \/ HandleDownload
  \/ \E c \in BagToSet(calls), r \in {"ok", "invalid", "reject"} : DownloadResponds(c, r)
  \/ ResetUpload

Spec == Init /\ [][Next]_vars

SpecAlways == InitAlways /\ [][Next]_vars

\* The second layout with its teardown.
NextTeardown ==
  \/ Next
  \/ Unmount

SpecTeardown == Init /\ [][NextTeardown]_vars

\* The happy path: one valid file, every request answered successfully (a poll
\* may still be answered PENDING or not done), no reset and no download.
HappyNext ==
  \/ HandleFileSelect("pdf")
  \/ \E c \in BagToSet(calls) : SignedUrlResponds(c, "ok")
  \/ \E c \in BagToSet(calls) : PutResponds(c, "ok")
  \/ \E c \in BagToSet(calls) : ProcessResponds(c, "ok")
  \/ \E i \in 1..Len(timers) : Tick(i)
  \/ \E c \in BagToSet(calls), r \in {"PENDING", "SUCCESS"} : StatusResponds(c, r)
  \/ \E c \in BagToSet(calls) : ResultResponds(c, "present")
  \/ \E c \in BagToSet(calls), r \in {"done", "running"} : OperationResponds(c, r)
  \/ \E c \in BagToSet(calls) : ConvertResponds(c, "ok")
  \/ \E c \in BagToSet(calls), r \in {"PENDING", "SUCCESS"} : ConvertStatusResponds(c, r)
  \/ \E c \in BagToSet(calls) : ConvertResultResponds(c, "X")

HappySpec == Init /\ [][HappyNext]_vars

----------------------------------------------------------------------------
\* Vocabulary of the properties.

Armed == {i \in 1..Len(timers) : timers[i].armed}
ArmedNext == {i \in 1..Len(timers') : timers'[i].armed}
ArmedOf(s) == {i \in Armed : timers[i].sess = s}
Checks == {"status", "operation", "cstatus"}
Quiescent == calls = EmptyBag /\ Armed = {}
ActiveStages == {"uploading", "processing", "converting"}

\* The answer to the poll check c arrives (whatever the answer is).
CheckAnswered(c) ==
  \E r \in StatusAnswers \cup {"done", "running"} :
    \/ StatusResponds(c, r)
    \/ OperationResponds(c, r)
    \/ ConvertStatusResponds(c, r)

----------------------------------------------------------------------------
\* C1: immediately after resetUpload the status is exactly the idle status,
\* downloadUrl is "" and showDownload is false, and no interval timer of any
\* poll remains armed, whether or not a ref still holds its handle.
C1_ResetLeavesNothingArmed ==
  [][ResetUpload =>
       /\ uploadStatus' = IdleStatus
       /\ downloadUrl' = ""
       /\ showDownload' = FALSE
       /\ ArmedNext = {}]_vars

\* C2: the answer to a poll check that was in flight when resetUpload ran is
\* discarded: it changes none of uploadStatus, downloadUrl and showDownload.
C2_StaleCheckDiscarded ==
  [][\A c \in BagToSet(calls) :
       (c.stale /\ c.k \in Checks /\ CheckAnswered(c))
         => UNCHANGED <<uploadStatus, downloadUrl, showDownload>>]_vars

\* C3: when handleFileUpload starts while the previous session is still in
\* stage uploading, processing or converting, no timer of an earlier session
\* is armed once the new session has issued its first remote call, so timers
\* of two sessions are never armed together.
C3_NewSessionCancelsOldTimers ==
  (Len(sess) >= 2 /\ sess[Len(sess)].from \in ActiveStages)
    => \A i \in Armed : timers[i].sess = Len(sess)

\* C4: once the stage is error or completed it keeps that value until
\* resetUpload is called: no late poll answer, timer tick or failing
\* handleDownload moves it.
C4_TerminalUntilReset ==
  [][uploadStatus.stage \in {"error", "completed"}
       => (uploadStatus'.stage = uploadStatus.stage \/ ResetUpload)]_vars

\* The answer to request c arrives and is one of the failures of C5: a rejected
\* call, a PUT that is not ok, a FAILURE status, a result without operation_name.
FailureAnswered(c) ==
  \/ SignedUrlResponds(c, "reject")
  \/ \E r \in {"notok", "reject"} : PutResponds(c, r)
  \/ ProcessResponds(c, "reject")
  \/ \E r \in {"FAILURE", "reject"} : StatusResponds(c, r)
  \/ \E r \in {"absent", "reject"} : ResultResponds(c, r)
  \/ OperationResponds(c, "reject")
  \/ ConvertResponds(c, "reject")
  \/ \E r \in {"FAILURE", "reject"} : ConvertStatusResponds(c, r)
  \/ ConvertResultResponds(c, "reject")

\* C5: every failure inside a running session moves the status to stage error
\* with an error message set, and leaves no poll timer of that session armed.
C5_FailureStopsSession ==
  [][\A c \in BagToSet(calls) :
       FailureAnswered(c)
         => /\ uploadStatus'.stage = "error"
            /\ uploadStatus'.error # NoError
            /\ \A i \in ArmedNext : timers'[i].sess # c.s]_vars

\* C6: on the happy path, once the session has come to rest (no request in
\* flight, no timer armed) it rests in stage completed with progress 100 and
\* downloadUrl = X.
C6_HappyPathCompletes ==
  (Len(sess) = 1 /\ Quiescent)
    => /\ uploadStatus.stage = "completed"
       /\ uploadStatus.progress = 100
       /\ downloadUrl = "X"

\* A convert task of the running session has answered FAILURE.
ConvertFailed ==
  \E i \in 1..Len(timers) :
    timers[i].kind = "convert" /\ timers[i].sess = Len(sess) /\ timers[i].seen = "FAILURE"

\* C7: when a convert status check answers FAILURE the stage becomes error with
\* a non-empty error string and the timer of that convert poll is cleared; from
\* then on downloadUrl stays empty and showDownload false while the session lasts.
C7_ConvertFailure ==
  /\ [][\A c \in BagToSet(calls) :
          ConvertStatusResponds(c, "FAILURE")
            => /\ uploadStatus'.stage = "error"
               /\ uploadStatus'.error \notin {NoError, ""}
               /\ ~timers'[c.c].armed]_vars
  /\ [][(ConvertFailed /\ downloadUrl = "" /\ ~showDownload /\ Len(sess') = Len(sess))
          => (downloadUrl' = "" /\ ~showDownload')]_vars

\* C8: within one session, while the stage is not error and no reset occurs,
\* progress is an integer in 0..100 and no update decreases it.
C8_ProgressMonotone ==
  [][(/\ Len(sess) = 1 /\ Len(sess') = 1
      /\ uploadStatus.stage # "error" /\ uploadStatus'.stage # "error"
      /\ ~ResetUpload)
       => /\ uploadStatus'.progress \in 0..100
          /\ uploadStatus'.progress >= uploadStatus.progress]_vars

\* C9: in every reachable state uploadStatus.error is defined exactly when the
\* stage is error.
C9_ErrorIffErrorStage ==
  (uploadStatus.error # NoError) <=> (uploadStatus.stage = "error")

\* A poll of a running session has failed: stage error with the rejection's message.
C9_Witness ==
  /\ uploadStatus.stage = "error"
  /\ uploadStatus.error = RejectMsg
  /\ Len(timers) >= 1

\* The place of a stage in the pipeline order.
Rank(stage) ==
  CASE stage = "idle" -> 0
    [] stage = "uploading" -> 1
    [] stage = "processing" -> 2
    [] stage = "converting" -> 3
    [] stage = "completed" -> 4
    [] stage = "error" -> 5

\* C10: the stage only moves forward along idle, uploading, processing,
\* converting, completed, or to error; it enters idle only from error or
\* completed, by resetUpload; only a new handleFileUpload starts over.
C10_StageOnlyForward ==
  [][uploadStatus'.stage # uploadStatus.stage
       => \/ uploadStatus'.stage = "error"
          \/ /\ uploadStatus'.stage = "idle"
             /\ uploadStatus.stage \in {"error", "completed"}
             /\ ResetUpload
          \/ /\ uploadStatus'.stage # "idle"
             /\ uploadStatus.stage # "error"
             /\ Rank(uploadStatus'.stage) > Rank(uploadStatus.stage)
          \/ HandleFileSelect("pdf")]_vars

\* C11: in every reachable state a non-empty downloadUrl implies stage
\* completed: the result reference is never set, and never stays set, in any
\* other stage.
C11_DownloadUrlOnlyCompleted ==
  downloadUrl # "" => uploadStatus.stage = "completed"

\* The answer to request c of a pipeline session arrives (whatever it is).
SessionAnswered(c) ==
  \/ \E r \in {"ok", "notok", "reject"} :
       SignedUrlResponds(c, r) \/ PutResponds(c, r) \/ ProcessResponds(c, r) \/ ConvertResponds(c, r)
  \/ \E r \in {"present", "absent", "X", "reject"} :
       ResultResponds(c, r) \/ ConvertResultResponds(c, r)
  \/ CheckAnswered(c)

\* C12: after resetUpload the session that was running issues no further remote
\* call and arms no new timer: the continuation of a request that was in flight
\* at the reset only ends.
C12_NothingAfterReset ==
  [][\A c \in BagToSet(calls) :
       (c.stale /\ SessionAnswered(c))
         => /\ Len(timers') = Len(timers)
            /\ BagCardinality(calls') < BagCardinality(calls)]_vars

\* C13: at most one interval timer is armed in total across the status,
\* operation and convert polls, counting timers whose handle was overwritten.
C13_AtMostOneTimerArmed == Cardinality(Armed) <= 1

\* The timers of one poll that session s has created.
TimersOf(kind, s) ==
  {i \in 1..Len(timers) : timers[i].kind = kind /\ timers[i].sess = s}

\* C14: once a check of a poll has observed a terminal outcome no later check
\* request is issued by that poll, and the terminal continuation runs once per
\* session: the operation poll and the convert poll are started at most once.
C14_TerminalOnce ==
  /\ \A c \in BagToSet(calls) : c.k \in Checks => c.early
  /\ \A s \in 1..Len(sess) :
       /\ Cardinality(TimersOf("operation", s)) <= 1
       /\ Cardinality(TimersOf("convert", s)) <= 1

\* The poll whose check request is c.
PollOf(c) ==
  CASE c.k = "status" -> "status"
    [] c.k = "operation" -> "operation"
    [] c.k = "cstatus" -> "convert"

\* The check request c of a poll is rejected.
CheckRejected(c) ==
  \/ StatusResponds(c, "reject")
  \/ OperationResponds(c, "reject")
  \/ ConvertStatusResponds(c, "reject")

\* C15: for each of the three polls a rejected check is terminal: the stage
\* becomes error and no timer of that poll of the session stays armed, so the
\* check is not retried.
C15_RejectedCheckTerminal ==
  [][\A c \in BagToSet(calls) :
       (c.k \in Checks /\ CheckRejected(c))
         => /\ uploadStatus'.stage = "error"
            /\ \A i \in ArmedNext :
                 ~(timers'[i].kind = PollOf(c) /\ timers'[i].sess = c.s)]_vars

\* The requests of kind k that session s has in flight, in bag B.
Pending(B, k, s) ==
  BagCardinality([c \in {d \in BagToSet(B) : d.k = k /\ d.s = s} |-> CopiesIn(c, B)])

\* Session s issues a request of kind k in this step.
Issues(k, s) == Pending(calls', k, s) > Pending(calls, k, s)

\* C16: within a session the remote calls respect the stage order: the process
\* request is issued only by the continuation of an ok PUT; getOperation only
\* after a task status SUCCESS and a task result with operation_name; the
\* convert request only by the continuation of a getOperation answer done;
\* getTaskStatus for the convert task only once the convert request has
\* returned (its poll exists).
C16_CallsInStageOrder ==
  [][\A s \in 1..Len(sess) :
       /\ Issues("process", s) =>
            \E c \in BagToSet(calls) : c.s = s /\ PutResponds(c, "ok")
       /\ Issues("operation", s) =>
            sess[s].taskSeen = "SUCCESS" /\ sess[s].opName = "present"
       /\ Issues("convert", s) =>
            \E c \in BagToSet(calls) : c.s = s /\ OperationResponds(c, "done")
       /\ Issues("cstatus", s) =>
            /\ TimersOf("convert", s) # {}
            /\ sess[s].opSeen]_vars

\* A status check of a convert task is in flight: every earlier call was made.
C16_Witness ==
  \E c \in BagToSet(calls) : c.k = "cstatus"

\* C17: the stage becomes converting only by a callback of a session whose
\* getOperation check has answered done; an answer that is not done sets stage
\* processing and issues no convert request.
C17_ConvertingOnlyAfterDone ==
  [][/\ (uploadStatus'.stage = "converting" /\ uploadStatus.stage # "converting")
          => \E c \in BagToSet(calls) : SessionAnswered(c) /\ sess'[c.s].opSeen
     /\ \A c \in BagToSet(calls) :
          OperationResponds(c, "running")
            => uploadStatus'.stage = "processing" /\ ~Issues("convert", c.s)]_vars

\* The operation poll has ticked more than once and the answer done has just
\* moved the stage to converting.
C17_Witness ==
  /\ uploadStatus.stage = "converting"
  /\ uploadStatus.progress = 80
  /\ ticks >= 3
  /\ Len(timers) = 2
  /\ sess[1].opSeen

\* C18: a file rejected by input validation (none selected, or not a PDF) never
\* starts the pipeline: the step issues no remote call, creates no timer and no
\* session, and sets stage error rather than any pipeline stage.
C18_InvalidFileRejected ==
  [][\A f \in Files \ {"pdf"} :
       HandleFileSelect(f)
         => /\ calls' = calls
            /\ timers' = timers
            /\ sess' = sess
            /\ uploadStatus'.stage = "error"]_vars

\* An invalid file has been selected before any upload: its error is shown.
C18_Witness ==
  /\ uploadStatus.stage = "error"
  /\ uploadStatus.error = "bad file format"
  /\ sess = <<>>

\* C19: tearing the component down stops every armed poll timer, and after the
\* teardown no interval callback fires and no status request is issued.
C19_TeardownStopsPolling ==
  [][/\ Unmount => ArmedNext = {}
     /\ version = 0
          => /\ \A i \in 1..Len(timers) : ~Tick(i)
             /\ \A k \in Checks, s \in 1..Len(sess) : ~Issues(k, s)]_vars

\* The progress values each stage is shown with.
ProgressOf(stage) ==
  CASE stage = "uploading" -> {10, 30}
    [] stage = "processing" -> {50, 60, 65, 70, 75}
    [] stage = "converting" -> {80, 85, 90}
    [] stage = "completed" -> {100}
    [] OTHER -> {0}

\* C20: in every reachable state stage and progress are consistent: idle and
\* error have progress 0, uploading 10 or 30, processing one of 50, 60, 65, 70,
\* 75, converting one of 80, 85, 90, and completed 100.
C20_StageProgressConsistent ==
  /\ uploadStatus.stage \in {"idle", "uploading", "processing", "converting",
                             "completed", "error"}
  /\ uploadStatus.progress \in ProgressOf(uploadStatus.stage)

\* A session has been carried through to completed at 100.
C20_Witness ==
  /\ uploadStatus.stage = "completed"
  /\ uploadStatus.progress = 100
  /\ downloadUrl # ""

\* The kind of the timer whose callback issues the check requests of kind k.
KindOfCheck(k) == IF k = "cstatus" THEN "convert" ELSE k

\* C21: for each poll at most one check request is in flight: a tick issues its
\* request only when fewer requests of that poll are unanswered than the poll
\* has timers, so no timer has two of its own requests in flight.
C21_OneCheckInFlight ==
  [][\A i \in 1..Len(timers) :
       Tick(i) => Pending(calls, FirstCall(i).k, timers[i].sess)
                    < Cardinality(TimersOf(KindOfCheck(FirstCall(i).k), timers[i].sess))]_vars

\* C22: in every reachable state showDownload is true exactly when downloadUrl
\* is non-empty.
C22_ShowDownloadIffUrl == showDownload <=> downloadUrl # ""

\* The convert result has been read and the download is offered, nothing pending.
C22_Witness ==
  /\ showDownload
  /\ downloadUrl = "X"
  /\ Quiescent

\* C23: the UI never gets stuck: in every quiescent state (no timer armed, no
\* request in flight) the stage is idle, where the file input is rendered, or
\* the reset button is offered (stage error, or showDownload).
C23_NeverStuck ==
  Quiescent => (uploadStatus.stage = "idle" \/ ResetRendered)

====
